---------------------------- MODULE Spec2Model ----------------------------
(***************************************************************************)
(* Model of example/app.py: the request handler `handle` and the one-shot  *)
(* stdin/stdout branch that runs when the module is imported.  The Flask   *)
(* views of server mode only pass the framework's request on to `handle`   *)
(* and are left out.                                                       *)
(*                                                                         *)
(* Text is a string, read character by character with Len, SubSeq, Head,   *)
(* Tail and \o, so that startswith, split, json.dumps and json.loads are   *)
(* computed on characters.  A Python / JSON value is a record with the     *)
(* same fields for every type:                                             *)
(*   t  the type tag: "null" "bool" "num" "str" "list" "obj"               *)
(*   b  the value of a bool, n of an int, s the characters of a str,       *)
(*   a  the items of a list, or the values of a dict in insertion order,   *)
(*   k  the keys of a dict in insertion order.                             *)
(* The JSON subset modelled: objects, arrays, strings with the escapes     *)
(* \" \\ \/, integers, true, false, null, and the space as whitespace;     *)
(* the inputs tried hold no other escape, no fraction and no exponent.     *)
(***************************************************************************)
EXTENDS Integers, Sequences, FiniteSets, TLC

(* ------------------------- Python / JSON values ------------------------ *)

JNull == [t |-> "null", b |-> FALSE, n |-> 0, s |-> "", k |-> <<>>, a |-> <<>>]

JBool(x) == [t |-> "bool", b |-> x, n |-> 0, s |-> "", k |-> <<>>, a |-> <<>>]

JNum(x) == [t |-> "num", b |-> FALSE, n |-> x, s |-> "", k |-> <<>>, a |-> <<>>]

JStr(x) == [t |-> "str", b |-> FALSE, n |-> 0, s |-> x, k |-> <<>>, a |-> <<>>]

JList(items) == [t |-> "list", b |-> FALSE, n |-> 0, s |-> "", k |-> <<>>, a |-> items]

JObj(keys, vals) == [t |-> "obj", b |-> FALSE, n |-> 0, s |-> "", k |-> keys, a |-> vals]

EmptyDict == JObj(<<>>, <<>>)

\* The position of key in the dict d, 0 when it is absent.
KeyIndex(d, key) ==
    IF \E i \in 1..Len(d.k) : d.k[i] = key
    THEN CHOOSE i \in 1..Len(d.k) : d.k[i] = key
    ELSE 0

HasKey(d, key) == d.t = "obj" /\ KeyIndex(d, key) # 0

\* dict.get(key, default)
DictGet(d, key, default) ==
    IF KeyIndex(d, key) = 0 THEN default ELSE d.a[KeyIndex(d, key)]

\* d[key] = val: a present key keeps its place, a new key goes last.
DictSet(d, key, val) ==
    IF KeyIndex(d, key) = 0
    THEN JObj(Append(d.k, key), Append(d.a, val))
    ELSE JObj(d.k, [d.a EXCEPT ![KeyIndex(d, key)] = val])

\* Python's truth value of v ("if body:").
Truthy(v) ==
    CASE v.t = "null" -> FALSE
      [] v.t = "bool" -> v.b
      [] v.t = "num"  -> v.n # 0
      [] v.t = "str"  -> Len(v.s) > 0
      [] v.t = "list" -> Len(v.a) > 0
      [] v.t = "obj"  -> Len(v.k) > 0

\* type(v).__name__
TypeName(v) ==
    CASE v.t = "null" -> "NoneType"
      [] v.t = "bool" -> "bool"
      [] v.t = "num"  -> "int"
      [] v.t = "str"  -> "str"
      [] v.t = "list" -> "list"
      [] v.t = "obj"  -> "dict"

\* str(AttributeError) of v.<attr> for an attribute the type of v lacks.
AttributeErrorMsg(v, attr) ==
    "'" \o TypeName(v) \o "' object has no attribute '" \o attr \o "'"

(* ----------------------------- evaluation ------------------------------ *)

\* F applied to the values of its arguments: each argument is evaluated
\* once, before F is applied, however often F uses it.
Let1(a, F(_)) == CHOOSE out \in {F(x) : x \in {a}} : TRUE

Let2(a, b, F(_, _)) == CHOOSE out \in {F(x, y) : x \in {a}, y \in {b}} : TRUE

Let3(a, b, c, F(_, _, _)) ==
    CHOOSE out \in {F(x, y, z) : x \in {a}, y \in {b}, z \in {c}} : TRUE

\* The character of the text s at index i, as a text of length 1.
Char(s, i) == SubSeq(s, i, i)

\* The index of the first character of s, from index i on, that is one of
\* chars; Len(s) + 1 when there is none.
Find(s, i, chars) ==
    CHOOSE j \in i..(Len(s) + 1) :
        /\ j = Len(s) + 1 \/ Char(s, j) \in chars
        /\ \A m \in i..(j - 1) : Char(s, m) \notin chars

(* ------------------------------ json.dumps ----------------------------- *)

DigitChars == <<"0", "1", "2", "3", "4", "5", "6", "7", "8", "9">>

RECURSIVE NatToChars(_)
NatToChars(n) ==
    IF n < 10 THEN DigitChars[n + 1]
    ELSE NatToChars(n \div 10) \o DigitChars[(n % 10) + 1]

\* str(n) of an int
IntToChars(n) == IF n < 0 THEN "-" \o NatToChars(0 - n) ELSE NatToChars(n)

\* The characters of a str inside its JSON quotes, from index `from` on:
\* the text up to the next " or \, that character escaped, and the rest.
RECURSIVE EscapeChars(_, _)
EscapeChars(str, from) ==
    Let2(str, from, LAMBDA s, i :
    Let1(Find(s, i, {"\"", "\\"}), LAMBDA j :
        IF j > Len(s) THEN SubSeq(s, i, Len(s))
        ELSE SubSeq(s, i, j - 1) \o "\\" \o Char(s, j) \o EscapeChars(s, j + 1)))

DumpStr(s) == "\"" \o EscapeChars(s, 1) \o "\""

\* json.dumps(v) with the default separators ", " and ": ".
RECURSIVE Dumps(_)
RECURSIVE DumpItems(_, _)
RECURSIVE DumpPairs(_, _, _)
Dumps(value) ==
    Let1(value, LAMBDA v :
        CASE v.t = "null" -> "null"
          [] v.t = "bool" -> (IF v.b THEN "true" ELSE "false")
          [] v.t = "num"  -> IntToChars(v.n)
          [] v.t = "str"  -> DumpStr(v.s)
          [] v.t = "list" -> "[" \o DumpItems(v.a, 1) \o "]"
          [] v.t = "obj"  -> "{" \o DumpPairs(v.k, v.a, 1) \o "}")

DumpItems(list, from) ==
    Let2(list, from, LAMBDA items, i :
        IF i > Len(items) THEN ""
        ELSE (IF i > 1 THEN ", " ELSE "") \o Dumps(items[i])
             \o DumpItems(items, i + 1))

DumpPairs(ks, vs, from) ==
    Let3(ks, vs, from, LAMBDA keys, vals, i :
        IF i > Len(keys) THEN ""
        ELSE (IF i > 1 THEN ", " ELSE "")
             \o DumpStr(keys[i]) \o ": " \o Dumps(vals[i])
             \o DumpPairs(keys, vals, i + 1))

(* ------------------------------ json.loads ----------------------------- *)

\* A scan result: the value and the index after it, or the error and the
\* index it is reported at (indices are 1-based, Python's are 0-based).
Ok(v, i) == [ok |-> TRUE, v |-> v, i |-> i, err |-> "none"]

Fail(err, i) == [ok |-> FALSE, v |-> JNull, i |-> i, err |-> err]

\* The index of the first character from index `from` on that is no space.
RECURSIVE SkipWs(_, _)
SkipWs(str, from) ==
    Let2(str, from, LAMBDA s, i :
        IF i <= Len(s) /\ Char(s, i) = " " THEN SkipWs(s, i + 1) ELSE i)

\* Whether the text lit stands in s at index i.
Matches(s, i, lit) ==
    /\ i + Len(lit) - 1 <= Len(s)
    /\ SubSeq(s, i, i + Len(lit) - 1) = lit

IsDigit(c) == \E d \in 1..10 : DigitChars[d] = c

DigitVal(c) == (CHOOSE d \in 1..10 : DigitChars[d] = c) - 1

\* The index after the digits that start at index `from`.
RECURSIVE DigitsEnd(_, _)
DigitsEnd(str, from) ==
    Let2(str, from, LAMBDA s, i :
        IF i <= Len(s) /\ IsDigit(Char(s, i)) THEN DigitsEnd(s, i + 1) ELSE i)

\* The value of the digits s[i..j-1].
RECURSIVE DigitsVal(_, _, _)
DigitsVal(s, i, j) ==
    IF i >= j THEN 0 ELSE DigitsVal(s, i, j - 1) * 10 + DigitVal(Char(s, j - 1))

\* An integer -?(0|[1-9][0-9]*) at i.
ScanNumber(s, i) ==
    LET neg == i <= Len(s) /\ Char(s, i) = "-"
        d   == IF neg THEN i + 1 ELSE i
        e   == IF d <= Len(s) /\ Char(s, d) = "0" THEN d + 1 ELSE DigitsEnd(s, d)
    IN  IF e = d THEN Fail("value", i)
        ELSE Ok(JNum(IF neg THEN 0 - DigitsVal(s, d, e) ELSE DigitsVal(s, d, e)), e)

\* A string whose opening quote is at begin; `from` is the index being read
\* and `read` the characters read so far.  The text up to the next " or \
\* is read at once; " ends the string and \ escapes the character after it.
RECURSIVE ScanString(_, _, _, _)
ScanString(str, from, read, begin) ==
    Let3(str, from, read, LAMBDA s, i, acc :
    Let1(Find(s, i, {"\"", "\\"}), LAMBDA j :
        IF j > Len(s) THEN Fail("unterminated", begin)
        ELSE IF Char(s, j) = "\"" THEN Ok(JStr(acc \o SubSeq(s, i, j - 1)), j + 1)
        ELSE IF j + 1 > Len(s) THEN Fail("unterminated", begin)
        ELSE IF Char(s, j + 1) \in {"\"", "\\", "/"}
        THEN ScanString(s, j + 2, acc \o SubSeq(s, i, j - 1) \o Char(s, j + 1), begin)
        ELSE Fail("escape", j)))

RECURSIVE ScanOnce(_, _)
RECURSIVE ParseArrayItems(_, _, _)
RECURSIVE ParseObjectPairs(_, _, _)
\* The array whose "[" is right before index i.
ParseArray(s, i) ==
    Let1(SkipWs(s, i), LAMBDA j :
        IF j <= Len(s) /\ Char(s, j) = "]" THEN Ok(JList(<<>>), j + 1)
        ELSE ParseArrayItems(s, j, <<>>))

\* The object whose "{" is right before index i.
ParseObject(s, i) ==
    Let1(SkipWs(s, i), LAMBDA j :
        IF j <= Len(s) /\ Char(s, j) = "}" THEN Ok(EmptyDict, j + 1)
        ELSE ParseObjectPairs(s, j, EmptyDict))

\* The value that starts at index `from`.
ScanOnce(str, from) ==
    Let2(str, from, LAMBDA s, i :
        IF i > Len(s) THEN Fail("value", i)
        ELSE CASE Char(s, i) = "\"" -> ScanString(s, i + 1, "", i)
               [] Char(s, i) = "{"  -> ParseObject(s, i + 1)
               [] Char(s, i) = "["  -> ParseArray(s, i + 1)
               [] Char(s, i) = "n"  -> (IF Matches(s, i, "null") THEN Ok(JNull, i + 4)
                                        ELSE Fail("value", i))
               [] Char(s, i) = "t"  -> (IF Matches(s, i, "true") THEN Ok(JBool(TRUE), i + 4)
                                        ELSE Fail("value", i))
               [] Char(s, i) = "f"  -> (IF Matches(s, i, "false") THEN Ok(JBool(FALSE), i + 5)
                                        ELSE Fail("value", i))
               [] OTHER             -> ScanNumber(s, i))

\* The items of an array from index `from` on, after the items `read`.
ParseArrayItems(str, from, read) ==
    Let3(str, from, read, LAMBDA s, i, acc :
    Let1(ScanOnce(s, i), LAMBDA r :
        IF ~r.ok THEN r
        ELSE
    Let1(SkipWs(s, r.i), LAMBDA j :
        IF j <= Len(s) /\ Char(s, j) = "]" THEN Ok(JList(Append(acc, r.v)), j + 1)
        ELSE IF j > Len(s) \/ Char(s, j) # "," THEN Fail("comma", j)
        ELSE ParseArrayItems(s, SkipWs(s, j + 1), Append(acc, r.v)))))

\* The pairs of an object from index `from` on, after the pairs `read`.
ParseObjectPairs(str, from, read) ==
    Let3(str, from, read, LAMBDA s, i, acc :
        IF i > Len(s) \/ Char(s, i) # "\"" THEN Fail("name", i)
        ELSE
    Let1(ScanString(s, i + 1, "", i), LAMBDA key :
        IF ~key.ok THEN key
        ELSE
    Let1(SkipWs(s, key.i), LAMBDA j :
        IF j > Len(s) \/ Char(s, j) # ":" THEN Fail("colon", j)
        ELSE
    Let1(ScanOnce(s, SkipWs(s, j + 1)), LAMBDA r :
        IF ~r.ok THEN r
        ELSE
    Let2(SkipWs(s, r.i), DictSet(acc, key.v.s, r.v), LAMBDA m, d :
        IF m <= Len(s) /\ Char(s, m) = "}" THEN Ok(d, m + 1)
        ELSE IF m > Len(s) \/ Char(s, m) # "," THEN Fail("comma", m)
        ELSE ParseObjectPairs(s, SkipWs(s, m + 1), d))))))

\* json.loads(s) of a str s: the whole text must be one value.
Loads(text) ==
    Let1(text, LAMBDA s :
    Let1(ScanOnce(s, SkipWs(s, 1)), LAMBDA r :
        IF ~r.ok THEN r
        ELSE IF SkipWs(s, r.i) # Len(s) + 1 THEN Fail("extra", SkipWs(s, r.i))
        ELSE r))

\* str(JSONDecodeError) of a failed scan of one-line text.
DecodeErrorMsg(r) ==
    (CASE r.err = "value"        -> "Expecting value"
       [] r.err = "name"         -> "Expecting property name enclosed in double quotes"
       [] r.err = "colon"        -> "Expecting ':' delimiter"
       [] r.err = "comma"        -> "Expecting ',' delimiter"
       [] r.err = "extra"        -> "Extra data"
       [] r.err = "unterminated" -> "Unterminated string starting at"
       [] r.err = "escape"       -> "Invalid \\escape")
    \o ": line 1 column " \o IntToChars(r.i) \o " (char " \o IntToChars(r.i - 1) \o ")"

(* ------------------------------- handle -------------------------------- *)

\* str.startswith(prefix)
StartsWith(s, prefix) ==
    /\ Len(prefix) <= Len(s)
    /\ \A i \in 1..Len(prefix) : Char(s, i) = Char(prefix, i)

\* s.split(sep) for a one-character sep: the pieces between the separators,
\* from index `from` on.
RECURSIVE Split(_, _, _)
Split(str, sep, from) ==
    Let2(str, from, LAMBDA s, i :
    Let1(Find(s, i, {sep}), LAMBDA j :
        IF j > Len(s) THEN <<SubSeq(s, i, Len(s))>>
        ELSE <<SubSeq(s, i, j - 1)>> \o Split(s, sep, j + 1)))

\* A bug LastSegment could have: the segment right after the prefix,
\* path.split('/')[3], in place of the last one.
LastSegment_AfterPrefix(path) == Split(path, "/", 1)[4]

\* path.split('/')[-1]
LastSegment(path) == Let1(Split(path, "/", 1), LAMBDA parts : parts[Len(parts)])

DefaultMethod == JStr("GET")

\* A bug DefaultPath could have: the alias of the root path as the default.
DefaultPath_Alias == JStr("/flask-example")

DefaultPath == JStr("/")

DefaultQuery == EmptyDict

DefaultHeaders == EmptyDict

DefaultBody == JStr("")

\* A bug ParseBody could have: the body is never parsed.
ParseBody_Discard(body) == EmptyDict

\* A bug ParseBody could have: the except branch sets None, not {}.
ParseBody_NoneOnError(body) ==
    IF Truthy(body)
    THEN IF body.t = "str"
         THEN Let1(Loads(body.s), LAMBDA r : IF r.ok THEN r.v ELSE JNull)
         ELSE JNull
    ELSE EmptyDict

\* The try/except around json.loads(body): the parsed body handle works on.
ParseBody(body) ==
    IF Truthy(body)
    THEN IF body.t = "str"
         THEN Let1(Loads(body.s), LAMBDA r : IF r.ok THEN r.v ELSE EmptyDict)
         ELSE EmptyDict
    ELSE EmptyDict

\* A bug IsRootPath could have: the hello alias is left out.
IsRootPath_NoHello(path) ==
    \/ path = JStr("/")
    \/ path = JStr("/flask-example")

IsRootPath(path) ==
    \/ path = JStr("/")
    \/ path = JStr("/flask-example")
    \/ path = JStr("/flask-example/hello")

UsersPath == JStr("/flask-example/users")

\* A bug UserDetailPrefix could have: a prefix that also covers the health
\* path, which the user-detail rule would then capture.
UserDetailPrefix_Wide == "/flask-example/"

UserDetailPrefix == "/flask-example/users/"

HealthPath == JStr("/flask-example/health")

JsonHeaders == JObj(<<"Content-Type">>, <<JStr("application/json")>>)

\* The response dict: the payload is serialised into the body.
Response(status, payload) ==
    JObj(<<"status", "headers", "body">>,
         <<JNum(status), JsonHeaders, JStr(Dumps(payload))>>)

HelloPayload(path, method) ==
    JObj(<<"message", "path", "method">>,
         <<JStr("Hello from Flask!"), path, method>>)

UsersPayload ==
    JObj(<<"users">>,
         <<JList(<<JObj(<<"id", "name">>, <<JNum(1), JStr("Alice")>>),
                   JObj(<<"id", "name">>, <<JNum(2), JStr("Bob")>>)>>)>>)

CreatedPayload(data) ==
    JObj(<<"message", "data">>, <<JStr("User created"), data>>)

UserDetailPayload(path) ==
    JObj(<<"id", "name", "path">>,
         <<JStr(LastSegment(path.s)), JStr("User " \o LastSegment(path.s)), path>>)

HealthPayload ==
    JObj(<<"status", "service">>, <<JStr("healthy"), JStr("flask-app")>>)

NotFoundPayload(path) ==
    JObj(<<"error", "path">>, <<JStr("Not found"), path>>)

\* The outcome of a call: a returned value (None is JNull) or a raised
\* exception with its str(); data is the local body_data when it was set.
Returned(v, data) == [raised |-> FALSE, ret |-> v, msg |-> "", data |-> data]

Raised(msg, data) == [raised |-> TRUE, ret |-> JNull, msg |-> msg, data |-> data]

handle(r) ==
    IF r.t # "obj" THEN Raised(AttributeErrorMsg(r, "get"), JNull)
    ELSE
    LET method  == DictGet(r, "method", DefaultMethod)
        path    == DictGet(r, "path", DefaultPath)
        query   == DictGet(r, "query", DefaultQuery)
        headers == DictGet(r, "headers", DefaultHeaders)
        body    == DictGet(r, "body", DefaultBody)
        data    == ParseBody(body)
    IN  IF IsRootPath(path)
        THEN Returned(Response(200, HelloPayload(path, method)), data)
        ELSE IF path = UsersPath
        THEN IF method = JStr("GET")
             THEN Returned(Response(200, UsersPayload), data)
             ELSE IF method = JStr("POST")
             THEN Returned(Response(201, CreatedPayload(data)), data)
             ELSE Returned(JNull, data)
        ELSE IF path.t # "str"
        THEN Raised(AttributeErrorMsg(path, "startswith"), data)
        ELSE IF StartsWith(path.s, UserDetailPrefix)
        THEN Returned(Response(200, UserDetailPayload(path)), data)
        ELSE IF path = HealthPath
        THEN Returned(Response(200, HealthPayload), data)
        ELSE Returned(Response(404, NotFoundPayload(path)), data)

(* --------------------------- one-shot branch --------------------------- *)

\* A bug ParseInput could have: text that does not parse becomes {}.
ParseInput_Degrade(text) ==
    IF text = "" THEN Returned(EmptyDict, JNull)
    ELSE Let1(Loads(text), LAMBDA r :
             IF r.ok THEN Returned(r.v, JNull) ELSE Returned(EmptyDict, JNull))

\* req = json.loads(input_data) if input_data else {}
ParseInput(text) ==
    IF text = "" THEN Returned(EmptyDict, JNull)
    ELSE Let1(Loads(text), LAMBDA r :
             IF r.ok THEN Returned(r.v, JNull) ELSE Raised(DecodeErrorMsg(r), JNull))

\* A bug ErrorResponse could have: the message is dropped.
ErrorResponse_NoMessage(msg) ==
    JObj(<<"status", "headers", "body">>,
         <<JNum(500), JsonHeaders, JStr(Dumps(JObj(<<"error">>, <<JStr("")>>)))>>)

\* The except branch's error_response.
ErrorResponse(msg) ==
    JObj(<<"status", "headers", "body">>,
         <<JNum(500), JsonHeaders, JStr(Dumps(JObj(<<"error">>, <<JStr(msg)>>)))>>)

(* ------------------------------- inputs -------------------------------- *)

\* The largest n of the user-detail paths /flask-example/users/<n> tried.
MaxUserId == 2

\* The longest JSON array [1, .., n] sent as a request body.
MaxListLen == 2

\* A field of the input document: <<>> when the document omits it, else <<v>>.
MethodChoices ==
    {<<>>, <<JStr("GET")>>, <<JStr("POST")>>, <<JStr("DELETE")>>}

PathChoices ==
    {<<>>, <<JNum(5)>>, <<JNull>>}
    \cup {<<JStr(p)>> : p \in
            {"", "/", "/flask-example", "/flask-example/hello", "/flask-example/",
             "/flask-example/users", "/flask-example/users/", "/flask-example/users/42",
             "/flask-example/users/1/2", "/flask-example/health",
             "/flask-example/healthz", "/flask-example/user", "/nope", "nope"}}
    \cup {<<JStr("/flask-example/users/" \o IntToChars(n))>> : n \in 0..MaxUserId}

BodyChoices ==
    {<<>>, <<JNum(5)>>, <<JObj(<<"name">>, <<JStr("Zoe")>>)>>}
    \cup {<<JStr(b)>> : b \in
            {"", " ", "{\"name\":\"Zoe\"}", "{not json", "5", "null", "\"x\"",
             "true", "{}", "{\"a\": {\"b\": [null, \"c\\\\d\"]}, \"a\": 0}"}}
    \cup {<<JStr(Dumps(JList([i \in 1..n |-> JNum(i)])))>> : n \in 0..MaxListLen}

\* query and headers: both omitted, or both given.
ExtraChoices ==
    {<<>>, <<JObj(<<"page">>, <<JStr("1")>>), JObj(<<"Accept">>, <<JStr("*/*")>>)>>}

\* The input document with the chosen fields.
RequestDoc(m, p, x, b) ==
    JObj((IF m = <<>> THEN <<>> ELSE <<"method">>)
         \o (IF p = <<>> THEN <<>> ELSE <<"path">>)
         \o (IF x = <<>> THEN <<>> ELSE <<"query", "headers">>)
         \o (IF b = <<>> THEN <<>> ELSE <<"body">>),
         m \o p \o x \o b)

\* Input texts that are not a request document.
RawInputs ==
    {"", " ", "{not json", "[]", "[1, 2]", "0", "5", "null", "true",
     "\"x\"", "{", "{\"path\": \"/\"", "{\"path\": \"/\"} x", "{\"path\" \"/\"}", "{\"path\": \"/a\\d\"}",
     " {\"method\":\"POST\" , \"path\":\"/nope\",\"path\":\"/flask-example/users\"} "}

Inputs ==
    RawInputs
    \cup {Dumps(RequestDoc(m, p, x, b)) :
            m \in MethodChoices, p \in PathChoices, x \in ExtraChoices, b \in BodyChoices}

(* ------------------------------ the run -------------------------------- *)

VARIABLES
    stdin,       \* the text on standard input
    pc,          \* the statement of the one-shot branch that runs next
    input_data,  \* sys.stdin.read()
    req,         \* the parsed input
    body_data,   \* handle's local body_data
    result,      \* what handle returned
    e,           \* the exception caught: [raised, msg]
    stdout       \* the lines printed

vars == <<stdin, pc, input_data, req, body_data, result, e, stdout>>

NoException == [raised |-> FALSE, msg |-> ""]

Exception(msg) == [raised |-> TRUE, msg |-> msg]

Init ==
    /\ stdin \in Inputs
    /\ pc = "read"
    /\ input_data = ""
    /\ req = JNull
    /\ body_data = JNull
    /\ result = JNull
    /\ e = NoException
    /\ stdout = <<>>

\* input_data = sys.stdin.read()
ReadStdin ==
    /\ pc = "read"
    /\ input_data' = stdin
    /\ pc' = "loads"
    /\ UNCHANGED <<stdin, req, body_data, result, e, stdout>>

\* req = json.loads(input_data) if input_data else {}
LoadRequest ==
    /\ pc = "loads"
    /\ LET r == ParseInput(input_data)
       IN  IF r.raised
           THEN /\ e' = Exception(r.msg)
                /\ pc' = "except"
                /\ UNCHANGED req
           ELSE /\ req' = r.ret
                /\ pc' = "handle"
                /\ UNCHANGED e
    /\ UNCHANGED <<stdin, input_data, body_data, result, stdout>>

\* result = handle(req)
CallHandle ==
    /\ pc = "handle"
    /\ LET r == handle(req)
       IN  /\ body_data' = r.data
           /\ IF r.raised
              THEN /\ e' = Exception(r.msg)
                   /\ pc' = "except"
                   /\ UNCHANGED result
              ELSE /\ result' = r.ret
                   /\ pc' = "print"
                   /\ UNCHANGED e
    /\ UNCHANGED <<stdin, input_data, req, stdout>>

\* print(json.dumps(result))
PrintResult ==
    /\ pc = "print"
    /\ stdout' = Append(stdout, Dumps(result))
    /\ pc' = "done"
    /\ UNCHANGED <<stdin, input_data, req, body_data, result, e>>

\* except Exception as e: print(json.dumps(error_response))
PrintError ==
    /\ pc = "except"
    /\ stdout' = Append(stdout, Dumps(ErrorResponse(e.msg)))
    /\ pc' = "done"
    /\ UNCHANGED <<stdin, input_data, req, body_data, result, e>>

Next == ReadStdin \/ LoadRequest \/ CallHandle \/ PrintResult \/ PrintError

Spec == Init /\ [][Next]_vars

(* ----------------------- what the claims speak of ---------------------- *)

\* What one run prints for the input text, as a function of the text.
RunOutput(text) ==
    LET p == ParseInput(text)
        h == handle(p.ret)
    IN  IF p.raised THEN Dumps(ErrorResponse(p.msg))
        ELSE IF h.raised THEN Dumps(ErrorResponse(h.msg))
        ELSE Dumps(h.ret)

TxtMethod == "method"

TxtPath == "path"

TxtBody == "body"

TxtUsers == "/flask-example/users"

TxtUsersSlash == "/flask-example/users/"

TxtHealth == "/flask-example/health"

TxtRoots == {"/", "/flask-example", "/flask-example/hello"}

\* d[key], JNull when d has no such key.
Field(d, key) == DictGet(d, key, JNull)

\* The request fields as handle reads them.
ReqMethod == DictGet(req, TxtMethod, JStr("GET"))

ReqPath == DictGet(req, TxtPath, JStr("/"))

ReqBody == DictGet(req, TxtBody, JStr(""))

\* handle was called and returned / raised.
HandleReturned == pc = "print"

HandleRaised == pc = "except" /\ ~ParseInput(input_data).raised

\* A response record: integer status, headers with Content-Type, string body.
IsResponseRecord(v) ==
    /\ v.t = "obj"
    /\ Field(v, "status").t = "num"
    /\ Field(v, "headers").t = "obj"
    /\ HasKey(Field(v, "headers"), "Content-Type")
    /\ Field(v, "body").t = "str"

\* A request record with fields of the documented types.
IsRequestRecord(v) ==
    /\ v.t = "obj"
    /\ DictGet(v, TxtMethod, JStr("")).t = "str"
    /\ DictGet(v, TxtPath, JStr("")).t = "str"
    /\ DictGet(v, TxtBody, JStr("")).t = "str"
    /\ DictGet(v, "query", EmptyDict).t = "obj"
    /\ DictGet(v, "headers", EmptyDict).t = "obj"

ResultStatus == Field(result, "status")

\* The payload decoded from the body of the response handle returned.
ResultPayload == Loads(Field(result, "body").s).v

\* The document printed, decoded.
Printed == Loads(stdout[1]).v

\* The text after the last "/" of s.
AfterLastSlash(s) ==
    LET i == CHOOSE j \in 1..Len(s) : Char(s, j) = "/" /\ \A m \in (j + 1)..Len(s) : Char(s, m) # "/"
    IN  SubSeq(s, i + 1, Len(s))

\* C1: handle returns a response record (integer status, headers with
\* Content-Type, string body) for every request record, whatever the method,
\* path and body, and every one-shot run prints a document with these fields.
C1_HandleTotal ==
    /\ (HandleReturned /\ IsRequestRecord(req)) => IsResponseRecord(result)
    /\ (HandleRaised => ~IsRequestRecord(req))
    /\ (pc = "done" => Len(stdout) = 1 /\ IsResponseRecord(Printed))

\* C2: a request to '/', '/flask-example' or '/flask-example/hello' never
\* raises and gets status 200 with the fixed greeting, the request's path and
\* the request's method, whatever the method and the body.
C2_RootGreeting ==
    (req.t = "obj" /\ ReqPath.t = "str" /\ ReqPath.s \in TxtRoots) =>
        /\ ~HandleRaised
        /\ HandleReturned =>
            /\ ResultStatus = JNum(200)
            /\ ResultPayload.t = "obj"
            /\ Field(ResultPayload, "message") = JStr("Hello from Flask!")
            /\ Field(ResultPayload, "path") = ReqPath
            /\ Field(ResultPayload, "method") = ReqMethod

C2_Witness ==
    /\ HandleReturned
    /\ ReqPath = JStr("/flask-example/hello")
    /\ Field(req, TxtMethod) = JStr("DELETE")
    /\ ReqBody = JStr("{not json")
    /\ Field(ResultPayload, "method") = JStr("DELETE")

\* C3: POST on '/flask-example/users' gets 201 and 'data' equal to the JSON
\* value decoded from the body ({} for an empty body); GET on it gets 200 and
\* the list [{id 1, Alice}, {id 2, Bob}], whatever the body, query and headers.
C3_UsersCollection ==
    (req.t = "obj" /\ ReqPath = JStr(TxtUsers) /\ ReqMethod \in {JStr("GET"), JStr("POST")}) =>
        /\ ~HandleRaised
        /\ (HandleReturned /\ ReqMethod = JStr("POST")) =>
            /\ ResultStatus = JNum(201)
            /\ (ReqBody.t = "str" /\ Loads(ReqBody.s).ok) =>
                   Field(ResultPayload, "data") = Loads(ReqBody.s).v
            /\ ReqBody = JStr("") => Field(ResultPayload, "data") = EmptyDict
        /\ (HandleReturned /\ ReqMethod = JStr("GET")) =>
            /\ ResultStatus = JNum(200)
            /\ Field(ResultPayload, "users") =
                   JList(<<JObj(<<"id", "name">>, <<JNum(1), JStr("Alice")>>),
                           JObj(<<"id", "name">>, <<JNum(2), JStr("Bob")>>)>>)

C3_Witness ==
    /\ HandleReturned
    /\ ReqPath = JStr(TxtUsers)
    /\ ReqMethod = JStr("POST")
    /\ ReqBody = JStr("{\"name\":\"Zoe\"}")
    /\ ResultStatus = JNum(201)
    /\ Field(ResultPayload, "data") = JObj(<<"name">>, <<JStr("Zoe")>>)

\* C4: a path that starts with '/flask-example/users/' never raises and gets
\* 200 with 'id' the text after the last '/' as a string, 'name' "User " and
\* that id, and 'path' the request path, whatever the method.
C4_UserDetail ==
    (req.t = "obj" /\ ReqPath.t = "str" /\ StartsWith(ReqPath.s, TxtUsersSlash)) =>
        /\ ~HandleRaised
        /\ HandleReturned =>
            /\ ResultStatus = JNum(200)
            /\ Field(ResultPayload, "id") = JStr(AfterLastSlash(ReqPath.s))
            /\ Field(ResultPayload, "name") = JStr("User " \o AfterLastSlash(ReqPath.s))
            /\ Field(ResultPayload, "path") = ReqPath
            /\ (ReqPath.s = "/flask-example/users/42" =>
                    Field(ResultPayload, "id") = JStr("42"))
            /\ (ReqPath.s = TxtUsersSlash => Field(ResultPayload, "id") = JStr(""))

C4_Witness ==
    /\ HandleReturned
    /\ ReqPath = JStr("/flask-example/users/1/2")
    /\ ReqMethod = JStr("DELETE")
    /\ ResultStatus = JNum(200)
    /\ Field(ResultPayload, "id") = JStr("2")

\* C5: the first matching rule wins: a path that matches no route gets 404
\* with an 'error' field and its own path, '/flask-example/health' gets 200
\* with {status: healthy, service: flask-app}, and the root and user-detail
\* paths get their own responses.
C5_DispatchOrder ==
    (HandleReturned /\ req.t = "obj" /\ ReqPath.t = "str") =>
        /\ (/\ ReqPath.s \notin TxtRoots
            /\ ReqPath.s # TxtUsers
            /\ ~StartsWith(ReqPath.s, TxtUsersSlash)
            /\ ReqPath.s # TxtHealth) =>
               /\ ResultStatus = JNum(404)
               /\ HasKey(ResultPayload, "error")
               /\ Field(ResultPayload, "path") = ReqPath
        /\ ReqPath.s = TxtHealth =>
               /\ ResultStatus = JNum(200)
               /\ ResultPayload = JObj(<<"status", "service">>,
                                       <<JStr("healthy"), JStr("flask-app")>>)
        /\ ReqPath.s \in TxtRoots =>
               ResultStatus = JNum(200) /\ HasKey(ResultPayload, "message")
        /\ StartsWith(ReqPath.s, TxtUsersSlash) =>
               ResultStatus = JNum(200) /\ HasKey(ResultPayload, "id")

C5_Witness ==
    /\ HandleReturned
    /\ ReqPath = JStr("/flask-example/healthz")
    /\ ResultStatus = JNum(404)
    /\ Field(ResultPayload, "error") = JStr("Not found")

\* C6: a body that is not valid JSON never makes handle raise, and handle
\* returns what it returns for the same request with an empty body; POST on
\* the users collection then echoes data = {}.
C6_MalformedBody ==
    (req.t = "obj" /\ ReqBody.t = "str" /\ ReqBody.s # "" /\ ~Loads(ReqBody.s).ok) =>
        /\ HandleRaised => ReqPath.t # "str"
        /\ HandleReturned =>
            /\ ~handle(DictSet(req, TxtBody, JStr(""))).raised
            /\ result = handle(DictSet(req, TxtBody, JStr(""))).ret
            /\ (ReqPath = JStr(TxtUsers) /\ ReqMethod = JStr("POST")) =>
                   Field(ResultPayload, "data") = EmptyDict

C6_Witness ==
    /\ HandleReturned
    /\ ReqBody = JStr("{not json")
    /\ ReqPath = JStr(TxtUsers)
    /\ ReqMethod = JStr("POST")
    /\ ResultStatus = JNum(201)
    /\ Field(ResultPayload, "data") = EmptyDict

\* C7: the parsed body handle dispatches on is always a mapping, also for a
\* body that is well-formed JSON but not an object, so the 'data' echoed by
\* POST on the users collection is always a JSON object.
C7_BodyDataIsMapping ==
    (req.t = "obj" /\ ReqBody.t = "str" /\ (HandleReturned \/ HandleRaised)) =>
        /\ body_data.t = "obj"
        /\ (HandleReturned /\ ReqPath = JStr(TxtUsers) /\ ReqMethod = JStr("POST")) =>
               Field(ResultPayload, "data").t = "obj"

\* The document d with each field it omits set to its default.
WithDefaults(d) ==
    LET d1 == IF HasKey(d, TxtMethod) THEN d ELSE DictSet(d, TxtMethod, JStr("GET"))
        d2 == IF HasKey(d1, TxtPath) THEN d1 ELSE DictSet(d1, TxtPath, JStr("/"))
        d3 == IF HasKey(d2, "query") THEN d2 ELSE DictSet(d2, "query", EmptyDict)
        d4 == IF HasKey(d3, "headers") THEN d3 ELSE DictSet(d3, "headers", EmptyDict)
    IN  IF HasKey(d4, TxtBody) THEN d4 ELSE DictSet(d4, TxtBody, JStr(""))

\* C8: a run with empty standard input prints what the run prints for the
\* request {method GET, path '/', query {}, headers {}, body ''}, and a run
\* whose document omits fields prints what it prints with them defaulted.
C8_DefaultedFields ==
    pc = "done" =>
        /\ stdin = "" => stdout = <<RunOutput(Dumps(WithDefaults(EmptyDict)))>>
        /\ (Loads(stdin).ok /\ Loads(stdin).v.t = "obj") =>
               stdout = <<RunOutput(Dumps(WithDefaults(Loads(stdin).v)))>>

C8_Witness ==
    /\ pc = "done"
    /\ stdin = ""
    /\ Field(Printed, "status") = JNum(200)
    /\ Loads(Field(Printed, "body").s).v =
           JObj(<<"message", "path", "method">>,
                <<JStr("Hello from Flask!"), JStr("/"), JStr("GET")>>)

\* C9: every run prints exactly one JSON document, as its last step, and
\* every exception raised on the way is caught: the document is handle's
\* result when nothing was raised, else {status 500, headers {Content-Type:
\* application/json}, body {error: the exception's message}}; input that is
\* JSON but not an object takes the second way.
C9_OneDocument ==
    /\ Len(stdout) <= 1
    /\ pc \in {"read", "loads", "handle", "print", "except", "done"}
    /\ pc # "done" => stdout = <<>>
    /\ pc = "done" =>
        /\ Len(stdout) = 1
        /\ Loads(stdout[1]).ok
        /\ ~e.raised => Printed = result
        /\ e.raised =>
            /\ Printed.k = <<"status", "headers", "body">>
            /\ Field(Printed, "status") = JNum(500)
            /\ Field(Printed, "headers") =
                   JObj(<<"Content-Type">>, <<JStr("application/json")>>)
            /\ Loads(Field(Printed, "body").s).v = JObj(<<"error">>, <<JStr(e.msg)>>)
        /\ (Loads(stdin).ok /\ Loads(stdin).v.t # "obj") => e.raised

C9_Witness ==
    /\ pc = "done"
    /\ stdin = "[1, 2]"
    /\ Field(Printed, "status") = JNum(500)
    /\ Loads(Field(Printed, "body").s).v =
           JObj(<<"error">>, <<JStr("'list' object has no attribute 'get'")>>)

\* Input text that is not a request document: not JSON, JSON that is not an
\* object, or an object whose path is not a string.
MalformedInput(text) ==
    /\ text # ""
    /\ \/ ~Loads(text).ok
       \/ Loads(text).v.t # "obj"
       \/ DictGet(Loads(text).v, TxtPath, JStr("")).t # "str"

\* C10 as stated: malformed input is dispatched as the all-default request,
\* so the run prints what it prints for empty standard input, and the path
\* handle dispatches on always begins with '/'.
C10_MalformedDegrades ==
    /\ (pc = "done" /\ MalformedInput(stdin)) => stdout = <<RunOutput("")>>
    /\ (HandleReturned /\ req.t = "obj") => (ReqPath.t = "str" /\ StartsWith(ReqPath.s, "/"))

\* C10 as amended: malformed input gets the 500 document, which is not what
\* empty standard input gets, and a path is dispatched on as it was given,
\* with or without a leading '/'.
C10_MalformedIs500 ==
    /\ (pc = "done" /\ MalformedInput(stdin)) =>
        /\ e.raised
        /\ Len(stdout) = 1
        /\ Field(Printed, "status") = JNum(500)
        /\ stdout # <<RunOutput("")>>
    /\ (HandleReturned /\ req.t = "obj" /\ ReqPath.t = "str" /\ ~StartsWith(ReqPath.s, "/")) =>
        /\ ResultStatus = JNum(404)
        /\ Field(ResultPayload, "path") = ReqPath

C10_Witness ==
    /\ pc = "done"
    /\ stdin = "{not json"
    /\ e.raised
    /\ Field(Printed, "status") = JNum(500)

=============================================================================
